---- MODULE Spec2Model ----
(***************************************************************************)
(* A model of jpegid's concurrent metadata-extraction pipeline             *)
(* (src/main.go, JpegIDCmd.Run and main; src/util_unix.go, stop).          *)
(*                                                                         *)
(* Goroutines: the main goroutine (starts the workers, then walks the      *)
(* roots and sends matching paths on the unbuffered channel filePaths),    *)
(* NumWorkers worker goroutines (each drives one exiftool process), and    *)
(* the signal goroutine of main().  The exiftool processes and the user    *)
(* sending interrupts are the environment.                                 *)
(***************************************************************************)
EXTENDS Integers, Sequences, FiniteSets, Bags, TLC

(***************************************************************************)
(* Bounds of the model.                                                    *)
(***************************************************************************)
MaxWorkers == 2      \* NumWorkers ranges over 1..MaxWorkers
MaxFiles == 2        \* files on disk when the run starts
MaxJitter == 1       \* the jitter drawn ranges over 0..MaxJitter
MaxFaults == 1       \* misbehaviours of the environment in one run
MaxSignals == 2      \* interrupts the user sends

\* rand.IntN(1000): the jitter is below this number of milliseconds.
JitterLimit == 1000

Min(a, b) == IF a < b THEN a ELSE b

Jitters == 0 .. Min(MaxJitter, JitterLimit - 1)

(***************************************************************************)
(* Strings.  A base name is the sequence of its dot-separated segments:    *)
(* "a.jpg" is <<"a", "jpg">>.  An EXIF date-time value is the sequence of  *)
(* its fields: "2023:05:01 10:00:00.250+00:00" is                          *)
(* <<"2023:05:01", "10:00:00", "250", "+00:00">>; the empty string is <<>>.*)
(* Concatenation of strings is \o on these sequences.                      *)
(***************************************************************************)
EmptyString == << >>

\* The date, clock and zone fields the inputs use, and how
\* Format("2006-01-02T150405.000-0700") prints each of them.
DateOut == [d \in {"2023:05:01"} |-> "2023-05-01"]
ClockOut == [c \in {"10:00:00", "10:00:01"} |-> IF c = "10:00:00" THEN "100000" ELSE "100001"]
ZoneOut == [z \in {"+00:00", "+08:00"} |-> IF z = "+00:00" THEN "+0000" ELSE "+0800"]

\* Fractions of exactly three digits, with their value in milliseconds.
Frac3 == [f \in {"250", "000", "001", "002", "003"} |->
            CASE f = "250" -> 250 [] f = "000" -> 0 [] f = "001" -> 1
              [] f = "002" -> 2 [] OTHER -> 3]

Digit(n) == CASE n = 0 -> "0" [] n = 1 -> "1" [] n = 2 -> "2" [] n = 3 -> "3"
              [] n = 4 -> "4" [] n = 5 -> "5" [] n = 6 -> "6" [] n = 7 -> "7"
              [] n = 8 -> "8" [] OTHER -> "9"

\* ".000" of the output layout: the milliseconds in three digits.
Millis3(ms) == Digit(ms \div 100) \o Digit((ms \div 10) % 10) \o Digit(ms % 10)

NoTime == [ok |-> FALSE, date |-> "", clock |-> "", ms |-> 0, zone |-> ""]

\* time.ParseInLocation("2006:01:02 15:04:05.000-07:00", value, time.UTC)
ParseSubSec(value) ==
    IF /\ Len(value) = 4
       /\ value[1] \in DOMAIN DateOut
       /\ value[2] \in DOMAIN ClockOut
       /\ value[3] \in DOMAIN Frac3
       /\ value[4] \in DOMAIN ZoneOut
    THEN [ok |-> TRUE, date |-> value[1], clock |-> value[2],
          ms |-> Frac3[value[3]], zone |-> value[4]]
    ELSE NoTime

\* time.ParseInLocation("2006:01:02 15:04:05-07:00", value, time.UTC)
ParseCreateDate(value) ==
    IF /\ Len(value) = 3
       /\ value[1] \in DOMAIN DateOut
       /\ value[2] \in DOMAIN ClockOut
       /\ value[3] \in DOMAIN ZoneOut
    THEN [ok |-> TRUE, date |-> value[1], clock |-> value[2],
          ms |-> 0, zone |-> value[3]]
    ELSE NoTime

\* creationTime.Add(time.Duration(j) * time.Millisecond), for a time whose
\* milliseconds plus j stay within the second.
AddMillis(t, j) == [t EXCEPT !.ms = t.ms + j]

\* creationTime.Format("2006-01-02T150405.000-0700"): two segments, the
\* layout has one dot.
FormatTime(t) ==
    << DateOut[t.date] \o "T" \o ClockOut[t.clock],
       Millis3(t.ms) \o ZoneOut[t.zone] >>

\* filepath.Ext: the suffix from the last dot of the base name, "" if none.
Ext(base) == IF Len(base) >= 2 THEN << base[Len(base)] >> ELSE EmptyString

(***************************************************************************)
(* Paths.  A directory is the sequence of its components; a file path is   *)
(* its directory and its base name.                                        *)
(***************************************************************************)
DirA == << "A" >>
DirAs == << "A", "s" >>
DirB == << "B" >>
Directories == {DirA, DirAs, DirB}

FilePath(dir, base) == [dir |-> dir, base |-> base]

\* filepath.Dir(filePath)
Dir(p) == p.dir

\* filepath.Join(filepath.Dir(filePath), Format(creationTime) + Ext(filePath))
NewFilePath(filePath, creationTime) ==
    FilePath(Dir(filePath), FormatTime(creationTime) \o Ext(filePath.base))

(***************************************************************************)
(* Metadata.  type Exif struct (the fields json.Unmarshal fills).          *)
(***************************************************************************)
Exif(subsec, create, zone) ==
    [FileSize |-> "1 kB", SubSecDateTimeOriginal |-> subsec,
     CreateDate |-> create, TimeZone |-> zone]

ZeroExif == Exif(EmptyString, EmptyString, EmptyString)

\* The metadata a file of each kind carries.
ExifOfKind(kind, clock) ==
    CASE kind = "subsec" ->
           Exif(<<"2023:05:01", clock, "250", "+00:00">>,
                <<"2023:05:01", clock>>, <<"+00:00">>)
      [] kind = "create" ->
           Exif(EmptyString, <<"2023:05:01", clock>>, <<"+00:00">>)
      [] kind = "badfrac" ->
           Exif(<<"2023:05:01", clock, "25", "+00:00">>, EmptyString, EmptyString)
      [] OTHER -> ZeroExif

(***************************************************************************)
(* The tool's output stream: a sequence of lines.  One record is printed   *)
(* as the three lines "[{", its fields, "}]".                              *)
(***************************************************************************)
Line(text, exif) == [text |-> text, exif |-> exif]

ReadyLine == Line("{ready}", ZeroExif)

RecordLines(exif) == << Line("[{", ZeroExif), Line("fields", exif), Line("}]", ZeroExif) >>

EmptyArrayLines == << Line("[]", ZeroExif) >>

GarbageLines == << Line("garbage", ZeroExif) >>

\* json.Unmarshal(buf.Bytes(), &exifs): an error, or the decoded array.
Unmarshal(buf) ==
    CASE buf = EmptyArrayLines -> [err |-> FALSE, exifs |-> << >>]
      [] /\ Len(buf) = 3
         /\ buf[1].text = "[{"
         /\ buf[2].text = "fields"
         /\ buf[3].text = "}]" -> [err |-> FALSE, exifs |-> << buf[2].exif >>]
      [] OTHER -> [err |-> TRUE, exifs |-> << >>]

\* The position of the first "{ready}\n" line in the stream, 0 if none.
ReadyAt(lines) ==
    IF \E i \in 1 .. Len(lines) : lines[i] = ReadyLine
    THEN CHOOSE i \in 1 .. Len(lines) :
            /\ lines[i] = ReadyLine
            /\ \A k \in 1 .. (i - 1) : lines[k] # ReadyLine
    ELSE 0

(***************************************************************************)
(* The timestamp resolution of the worker: the creation time of a decoded  *)
(* record with the jitter j drawn, or the error.                           *)
(***************************************************************************)
CreationTime(exif, j) ==
    IF exif.SubSecDateTimeOriginal # EmptyString
    THEN ParseSubSec(exif.SubSecDateTimeOriginal)
    ELSE IF exif.CreateDate # EmptyString
         THEN LET t == ParseCreateDate(exif.CreateDate \o exif.TimeZone)
              IN  IF t.ok THEN AddMillis(t, j) ELSE t
         ELSE NoTime

\* Whether the jitter is drawn for this record (second branch, parse succeeded).
DrawsJitter(exif) ==
    /\ exif.SubSecDateTimeOriginal = EmptyString
    /\ exif.CreateDate # EmptyString
    /\ ParseCreateDate(exif.CreateDate \o exif.TimeZone).ok

(***************************************************************************)
(* The file system: a set of entries, one per file, each a path and the    *)
(* identity of the file found there.  The directories are fixed.           *)
(***************************************************************************)
Entry(path, id) == [path |-> path, id |-> id]

Exists(files, p) == \E e \in files : e.path = p

FileAt(files, p) == (CHOOSE e \in files : e.path = p).id

\* os.Rename(src, dst) when it succeeds: dst is replaced if it exists.
RenameResult(files, src, dst) ==
    IF src = dst
    THEN files
    ELSE {e \in files : e.path # src /\ e.path # dst} \cup {Entry(dst, FileAt(files, src))}

\* regexp.MatchString: the pattern (one segment) occurs in the base name.
MatchString(pattern, base) == \E i \in 1 .. Len(base) : base[i] = pattern

\* A filter that asks every pattern to match the name.
MatchesEvery(patterns, base) ==
    \A k \in 1 .. Len(patterns) : MatchString(patterns[k], base)

\* The loop over jpegidCmd.FileRegexps: some pattern matches the name.
MatchesAny(patterns, base) ==
    \E k \in 1 .. Len(patterns) : MatchString(patterns[k], base)

(***************************************************************************)
(* Directory listings.  fs.WalkDir visits the entries of a directory in    *)
(* lexical order of their names; NameRank is that order on the names the   *)
(* model uses: timestamp names (digits) sort before letters, and among     *)
(* themselves by clock, milliseconds and zone.                             *)
(***************************************************************************)
Stems == << "a", "b", "c", "d", "s" >>

StemRank(s) == IF \E i \in 1 .. Len(Stems) : Stems[i] = s
               THEN CHOOSE i \in 1 .. Len(Stems) : Stems[i] = s
               ELSE 0

KnownTimes ==
    { [ok |-> TRUE, date |-> "2023:05:01", clock |-> c, ms |-> m, zone |-> z] :
        c \in DOMAIN ClockOut,
        m \in Jitters \cup {Frac3[f] : f \in DOMAIN Frac3},
        z \in DOMAIN ZoneOut }

TimeRank(t) == (IF t.clock = "10:00:00" THEN 0 ELSE 1) * 10000 + t.ms * 10
                 + (IF t.zone = "+00:00" THEN 0 ELSE 1)

NameRank(base) ==
    IF Len(base) >= 2 /\ \E t \in KnownTimes : FormatTime(t) = SubSeq(base, 1, 2)
    THEN TimeRank(CHOOSE t \in KnownTimes : FormatTime(t) = SubSeq(base, 1, 2)) * 10 + Len(base)
    ELSE 1000000 + StemRank(base[1])

\* A directory entry as fs.WalkDir hands it to the callback.
DirEntry(path, isDir) == [path |-> path, isDir |-> isDir]

\* The entries of directory dir: its files, and its subdirectory if it has one.
Children(files, dir) ==
    {DirEntry(e.path, FALSE) : e \in {x \in files : x.path.dir = dir}}
      \cup (IF dir = DirA THEN {DirEntry(FilePath(DirA, <<"s">>), TRUE)} ELSE {})

RECURSIVE SortEntries(_)
SortEntries(S) ==
    IF S = {} THEN << >>
    ELSE LET m == CHOOSE x \in S : \A y \in S : NameRank(x.path.base) <= NameRank(y.path.base)
         IN  << m >> \o SortEntries(S \ {m})

\* fs.ReadDir: the sorted entries of the directory.
ReadDir(files, dir) == SortEntries(Children(files, dir))

\* The directory an entry of kind directory names.
DirOfEntry(e) == e.path.dir \o e.path.base

(***************************************************************************)
(* State.                                                                  *)
(***************************************************************************)
VARIABLES
    cfg,          \* JpegIDCmd: NumWorkers, Recursive, DryRun, ReplaceIfExists, Roots, FileRegexps
    exifOf,       \* the metadata of each file (by identity)
    fs0,          \* the file system when the run starts
    fs,           \* the file system
    mainPc,       \* where the main goroutine is in Run and main
    started,      \* workers started so far (the loop variable i)
    rootIdx,      \* the root being walked
    todo,         \* entries fs.WalkDir has listed and not yet visited
    runErr,       \* the error Run returns
    proc,         \* the process: "running", or how it ended
    ctxDone,      \* ctx.Done() is closed
    signals,      \* interrupts received
    pc,           \* where each worker goroutine is
    task,         \* the task each worker is processing (0: none)
    buf,          \* each worker's buf
    exif,         \* each worker's decoded record
    newFilePath,  \* each worker's newFilePath
    tool,         \* each exiftool process: "none", "up", "hung", "dead"
    req,          \* requests written to each tool's stdin and not yet answered
    out,          \* lines in each tool's stdout pipe, not yet read
    closing,      \* what each worker's deferred close has done so far
    tasks,        \* the paths the producer offered on filePaths: task t is tasks[t]
    got,          \* the tasks each worker received from filePaths
    log,          \* the outcome of each task
    stdout,       \* lines written to jpegidCmd.Stdout (a bag)
    faults,       \* misbehaviours of the environment so far
    fatal         \* workers that left their loop on a read error

vars == << cfg, exifOf, fs0, fs, mainPc, started, rootIdx, todo, runErr, proc,
           ctxDone, signals, pc, task, buf, exif, newFilePath, tool, req, out,
           closing, tasks, got, log, stdout, faults, fatal >>

Workers == 1 .. MaxWorkers

Files == 1 .. MaxFiles

NoPath == FilePath(EmptyString, EmptyString)

(***************************************************************************)
(* The files on disk when the run starts.  File 1 is of any kind, under    *)
(* its camera name or under the timestamp name an earlier run gave it;     *)
(* the other files carry a sub-second timestamp, equal to file 1's or one  *)
(* second later, and lie in the first root, its subdirectory or the        *)
(* second root.  The recursive walk is run when the subdirectory holds a   *)
(* file (it walks an empty subdirectory like the flat walk skips it).      *)
(* The patterns are "jpg" and "a" (a name may match both), or "a" alone    *)
(* (a name may match none).                                                *)
(***************************************************************************)
RegexpChoices == { << "jpg", "a" >>, << "a" >> }

KindChoices(f) ==
    IF f = 1
    THEN {[kind |-> k, clock |-> "10:00:00", renamed |-> r] :
             k \in {"subsec", "create"}, r \in BOOLEAN}
           \cup {[kind |-> k, clock |-> "10:00:00", renamed |-> FALSE] :
                   k \in {"none", "badfrac"}}
    ELSE {[kind |-> "subsec", clock |-> c, renamed |-> FALSE] : c \in DOMAIN ClockOut}

DirChoices(f, k) ==
    IF f = 1 \/ k.clock # "10:00:00" THEN {DirA}
    ELSE IF f % 2 = 0 THEN {DirA, DirAs, DirB} ELSE {DirA}

CameraName(f) == << Stems[((f - 1) % 4) + 1], "jpg" >>

InitialBase(f, k) ==
    IF k.renamed
    THEN FormatTime(CreationTime(ExifOfKind(k.kind, k.clock), 0)) \o Ext(CameraName(f))
    ELSE CameraName(f)

Init ==
    /\ \E n \in 1 .. MaxWorkers, rec \in BOOLEAN, dry \in BOOLEAN, rep \in BOOLEAN,
          regexps \in RegexpChoices :
          cfg = [NumWorkers |-> n, Recursive |-> rec, DryRun |-> dry,
                 ReplaceIfExists |-> rep, Roots |-> << DirA, DirB >>,
                 FileRegexps |-> regexps]
    /\ \E kinds \in [Files -> UNION {KindChoices(f) : f \in Files}],
          dirs \in [Files -> Directories] :
          /\ \A f \in Files : kinds[f] \in KindChoices(f) /\ dirs[f] \in DirChoices(f, kinds[f])
          /\ cfg.Recursive => \E f \in Files : dirs[f] = DirAs
          /\ exifOf = [f \in Files |-> ExifOfKind(kinds[f].kind, kinds[f].clock)]
          /\ fs = {Entry(FilePath(dirs[f], InitialBase(f, kinds[f])), f) : f \in Files}
    /\ fs0 = fs
    /\ mainPc = "start"
    /\ started = 0
    /\ rootIdx = 0
    /\ todo = << >>
    /\ runErr = "nil"
    /\ proc = "running"
    /\ ctxDone = FALSE
    /\ signals = 0
    /\ pc = [w \in Workers |-> "none"]
    /\ task = [w \in Workers |-> 0]
    /\ buf = [w \in Workers |-> << >>]
    /\ exif = [w \in Workers |-> ZeroExif]
    /\ newFilePath = [w \in Workers |-> NoPath]
    /\ tool = [w \in Workers |-> "none"]
    /\ req = [w \in Workers |-> << >>]
    /\ out = [w \in Workers |-> << >>]
    /\ closing = [w \in Workers |-> << >>]
    /\ tasks = << >>
    /\ got = [w \in Workers |-> {}]
    /\ log = << >>
    /\ stdout = EmptyBag
    /\ faults = 0
    /\ fatal = {}

(***************************************************************************)
(* The main goroutine: Run and main.                                       *)
(***************************************************************************)
\* The entry fs.WalkDir starts from: the root itself (the path ".").
RootEntry(root) == DirEntry(FilePath(EmptyString, root), TRUE)

\* A start loop that tries the iteration again when the session fails to
\* open, instead of returning the error.
StartWorkerRetrying ==
    /\ proc = "running"
    /\ mainPc = "start"
    /\ \/ /\ started' = started + 1
          /\ pc' = [pc EXCEPT ![started + 1] = "select"]
          /\ tool' = [tool EXCEPT ![started + 1] = "up"]
          /\ IF started + 1 = cfg.NumWorkers
             THEN /\ mainPc' = "walk"
                  /\ rootIdx' = 1
                  /\ todo' = << RootEntry(cfg.Roots[1]) >>
             ELSE UNCHANGED << mainPc, rootIdx, todo >>
          /\ UNCHANGED << runErr, faults >>
       \/ /\ faults < MaxFaults
          /\ faults' = faults + 1
          /\ UNCHANGED << runErr, mainPc, started, pc, tool, rootIdx, todo >>
    /\ UNCHANGED << cfg, exifOf, fs0, fs, proc, ctxDone, signals, task, buf, exif,
                    newFilePath, req, out, closing, tasks, got, log, stdout, fatal >>

\* One iteration of the worker start loop: the pipes and exifToolCmd.Start()
\* succeed and the worker goroutine is spawned, or one of them fails and Run
\* returns the error.  After the last iteration the walk of the first root
\* begins.
StartWorker ==
    /\ proc = "running"
    /\ mainPc = "start"
    /\ \/ /\ started' = started + 1
          /\ pc' = [pc EXCEPT ![started + 1] = "select"]
          /\ tool' = [tool EXCEPT ![started + 1] = "up"]
          /\ IF started + 1 = cfg.NumWorkers
             THEN /\ mainPc' = "walk"
                  /\ rootIdx' = 1
                  /\ todo' = << RootEntry(cfg.Roots[1]) >>
             ELSE UNCHANGED << mainPc, rootIdx, todo >>
          /\ UNCHANGED << runErr, faults >>
       \/ /\ faults < MaxFaults
          /\ faults' = faults + 1
          /\ runErr' = "start"
          /\ mainPc' = "return"
          /\ UNCHANGED << started, pc, tool, rootIdx, todo >>
    /\ UNCHANGED << cfg, exifOf, fs0, fs, proc, ctxDone, signals, task, buf, exif,
                    newFilePath, req, out, closing, tasks, got, log, stdout, fatal >>

\* The outcome of a task: what was done, and the target path it was done with.
Outcome(kind, dst) == [kind |-> kind, dst |-> dst]

\* One step of fs.WalkDir and its callback: the next root, the end of the
\* walk, a directory (skipped, listed, or failing to list) or a file.  A file
\* whose name some pattern matches becomes a task, filepath.Join(root, path),
\* which the producer goes on to send.
Walk ==
    /\ proc = "running"
    /\ mainPc = "walk"
    /\ IF todo = << >>
       THEN IF rootIdx < Len(cfg.Roots)
            THEN /\ rootIdx' = rootIdx + 1
                 /\ todo' = << RootEntry(cfg.Roots[rootIdx + 1]) >>
                 /\ UNCHANGED << mainPc, runErr, faults, tasks, log >>
            ELSE /\ mainPc' = "return"
                 /\ runErr' = "nil"
                 /\ UNCHANGED << rootIdx, todo, faults, tasks, log >>
       ELSE LET e == Head(todo) IN
            IF e.isDir
            THEN IF DirOfEntry(e) # cfg.Roots[rootIdx] /\ ~cfg.Recursive
                 THEN /\ todo' = Tail(todo)
                      /\ UNCHANGED << mainPc, rootIdx, runErr, faults, tasks, log >>
                 ELSE \/ /\ todo' = ReadDir(fs, DirOfEntry(e)) \o Tail(todo)
                         /\ UNCHANGED << mainPc, rootIdx, runErr, faults, tasks, log >>
                      \/ /\ faults < MaxFaults
                         /\ faults' = faults + 1
                         /\ runErr' = "walk"
                         /\ mainPc' = "return"
                         /\ UNCHANGED << rootIdx, todo, tasks, log >>
            ELSE IF MatchesAny(cfg.FileRegexps, e.path.base)
                 THEN /\ tasks' = Append(tasks, FilePath(e.path.dir, e.path.base))
                      /\ log' = Append(log, Outcome("offered", NoPath))
                      /\ mainPc' = "emit"
                      /\ todo' = Tail(todo)
                      /\ UNCHANGED << rootIdx, runErr, faults >>
                 ELSE /\ todo' = Tail(todo)
                      /\ UNCHANGED << mainPc, rootIdx, runErr, faults, tasks, log >>
    /\ UNCHANGED << cfg, exifOf, fs0, fs, started, proc, ctxDone, signals, pc, task, buf,
                    exif, newFilePath, tool, req, out, closing, got, stdout, fatal >>

\* A send that does not watch ctx.Done().
SendPossibleAfterDone == mainPc = "emit"

\* The producer's select: the send can proceed while ctx.Done() is open.
SendPossible == mainPc = "emit" /\ ~ctxDone

\* A producer that swallows the cancellation.
CtxErrNil == "nil"

\* ctx.Err()
CtxErr == IF ctxDone THEN "canceled" ELSE "nil"

\* A hand-over that leaves the task on offer to the other workers.
ReceiveKeepingOffer(w) ==
    /\ proc = "running"
    /\ pc[w] = "select"
    /\ SendPossible
    /\ task[w] = 0
    /\ Len(tasks) \notin got[w]
    /\ log' = [log EXCEPT ![Len(tasks)] = Outcome("pending", NoPath)]
    /\ got' = [got EXCEPT ![w] = @ \cup {Len(tasks)}]
    /\ task' = [task EXCEPT ![w] = Len(tasks)]
    /\ pc' = [pc EXCEPT ![w] = "write"]
    /\ UNCHANGED << cfg, exifOf, fs0, fs, mainPc, started, rootIdx, todo, runErr, proc,
                    ctxDone, signals, buf, exif, newFilePath, tool, req, out, closing,
                    tasks, stdout, faults, fatal >>

\* The unbuffered channel filePaths: the producer's send and worker w's
\* receive happen together.  Both wait in a select that also watches
\* ctx.Done(): closing ctx.Done() wakes every goroutine parked in such a
\* select through its Done case, and a goroutine entering the select after
\* the close finds no parked peer, so a transfer never follows the close.
Receive(w) ==
    /\ proc = "running"
    /\ pc[w] = "select"
    /\ SendPossible
    /\ log' = [log EXCEPT ![Len(tasks)] = Outcome("pending", NoPath)]
    /\ got' = [got EXCEPT ![w] = @ \cup {Len(tasks)}]
    /\ task' = [task EXCEPT ![w] = Len(tasks)]
    /\ pc' = [pc EXCEPT ![w] = "write"]
    /\ mainPc' = "walk"
    /\ UNCHANGED tasks
    /\ UNCHANGED << cfg, exifOf, fs0, fs, started, rootIdx, todo, runErr, proc, ctxDone,
                    signals, buf, exif, newFilePath, tool, req, out, closing, stdout,
                    faults, fatal >>

\* case <-ctx.Done() of the producer's select: return ctx.Err().
ProducerCancelled ==
    /\ proc = "running"
    /\ mainPc = "emit"
    /\ ctxDone
    /\ runErr' = CtxErr
    /\ mainPc' = "return"
    /\ UNCHANGED << cfg, exifOf, fs0, fs, started, rootIdx, todo, proc, ctxDone,
                    signals, pc, task, buf, exif, newFilePath, tool, req, out, closing,
                    tasks, got, log, stdout, faults, fatal >>

\* Run returns: the deferred cancel() runs first.
DeferredCancel ==
    /\ proc = "running"
    /\ mainPc = "return"
    /\ ctxDone' = TRUE
    /\ mainPc' = "wait"
    /\ UNCHANGED << cfg, exifOf, fs0, fs, started, rootIdx, todo, runErr, proc,
                    signals, pc, task, buf, exif, newFilePath, tool, req, out, closing,
                    tasks, got, log, stdout, faults, fatal >>

\* A return that does not wait for the workers.
DeferredWaitSkipped ==
    /\ proc = "running"
    /\ mainPc = "wait"
    /\ mainPc' = "returned"
    /\ UNCHANGED << cfg, exifOf, fs0, fs, started, rootIdx, todo, runErr, proc,
                    ctxDone, signals, pc, task, buf, exif, newFilePath, tool, req, out,
                    closing, tasks, got, log, stdout, faults, fatal >>

\* The deferred waitGroup.Wait(): every started worker has called Done.
DeferredWait ==
    /\ proc = "running"
    /\ mainPc = "wait"
    /\ \A w \in 1 .. started : pc[w] = "closed"
    /\ mainPc' = "returned"
    /\ UNCHANGED << cfg, exifOf, fs0, fs, started, rootIdx, todo, runErr, proc,
                    ctxDone, signals, pc, task, buf, exif, newFilePath, tool, req, out,
                    closing, tasks, got, log, stdout, faults, fatal >>

\* main after cmd.Run(ctx): exit status 1 for an error that is not a
\* cancellation, else main returns (exit status 0).
MainExit ==
    /\ proc = "running"
    /\ mainPc = "returned"
    /\ proc' = IF runErr # "nil" /\ runErr # "canceled" THEN "exit1" ELSE "exit0"
    /\ UNCHANGED << cfg, exifOf, fs0, fs, mainPc, started, rootIdx, todo, runErr,
                    ctxDone, signals, pc, task, buf, exif, newFilePath, tool, req, out,
                    closing, tasks, got, log, stdout, faults, fatal >>

(***************************************************************************)
(* The signal goroutine of main.                                           *)
(***************************************************************************)
\* The first interrupt: cancel().  Cancelling main's context cancels the
\* context Run derived from it.
SoftInterrupt ==
    /\ proc = "running"
    /\ signals = 0
    /\ signals < MaxSignals
    /\ signals' = 1
    /\ ctxDone' = TRUE
    /\ UNCHANGED << cfg, exifOf, fs0, fs, mainPc, started, rootIdx, todo, runErr,
                    proc, pc, task, buf, exif, newFilePath, tool, req, out, closing,
                    tasks, got, log, stdout, faults, fatal >>

\* The second interrupt: os.Exit(1).  The process ends where it stands: its
\* goroutines and their locals are gone, its pipes are closed; the files,
\* the tools and what was printed remain.
HardInterrupt ==
    /\ proc = "running"
    /\ signals = 1
    /\ signals < MaxSignals
    /\ signals' = 2
    /\ proc' = "exit1"
    /\ mainPc' = "killed"
    /\ pc' = [w \in Workers |-> IF pc[w] \in {"none", "closed"} THEN pc[w] ELSE "killed"]
    /\ todo' = << >>
    /\ task' = [w \in Workers |-> 0]
    /\ buf' = [w \in Workers |-> << >>]
    /\ exif' = [w \in Workers |-> ZeroExif]
    /\ newFilePath' = [w \in Workers |-> NoPath]
    /\ req' = [w \in Workers |-> << >>]
    /\ out' = [w \in Workers |-> << >>]
    /\ UNCHANGED << cfg, exifOf, fs0, fs, started, rootIdx, runErr, ctxDone, tool,
                    closing, tasks, got, log, stdout, faults, fatal >>

(***************************************************************************)
(* The worker goroutines.                                                  *)
(***************************************************************************)
\* What the deferred function of the worker does to a tool in state t:
\* io.WriteString(exifToolStdin, "-stay_open\nFalse\n"), whose error is only
\* logged, then stop(exifToolCmd): SIGTERM to the tool's process group.
CloseSequence(t) ==
    << IF t = "dead" THEN "stay_open False failed" ELSE "stay_open False",
       "SIGTERM" >>

\* A worker that looks at ctx.Done() in the middle of a task as well.
WorkerCancelledMidTask(w) ==
    /\ proc = "running"
    /\ pc[w] \in {"select", "write", "read", "exec", "rename"}
    /\ ctxDone
    /\ pc' = [pc EXCEPT ![w] = "closing"]
    /\ UNCHANGED << cfg, exifOf, fs0, fs, mainPc, started, rootIdx, todo, runErr,
                    proc, ctxDone, signals, task, buf, exif, newFilePath, tool, req, out,
                    closing, tasks, got, log, stdout, faults, fatal >>

\* case <-ctx.Done() of the worker's select: return, into the deferred close.
WorkerCancelled(w) ==
    /\ proc = "running"
    /\ pc[w] = "select"
    /\ ctxDone
    /\ pc' = [pc EXCEPT ![w] = "closing"]
    /\ UNCHANGED << cfg, exifOf, fs0, fs, mainPc, started, rootIdx, todo, runErr,
                    proc, ctxDone, signals, task, buf, exif, newFilePath, tool, req, out,
                    closing, tasks, got, log, stdout, faults, fatal >>

\* A request written without buf.Reset().
WriteRequestKeepingBuf(w) ==
    /\ proc = "running"
    /\ pc[w] = "write"
    /\ IF tool[w] = "dead"
       THEN /\ log' = [log EXCEPT ![task[w]] = Outcome("error", NoPath)]
            /\ task' = [task EXCEPT ![w] = 0]
            /\ pc' = [pc EXCEPT ![w] = "select"]
            /\ UNCHANGED << req, buf >>
       ELSE /\ req' = [req EXCEPT ![w] = Append(@, tasks[task[w]])]
            /\ pc' = [pc EXCEPT ![w] = "read"]
            /\ UNCHANGED << log, task, buf >>
    /\ UNCHANGED << cfg, exifOf, fs0, fs, mainPc, started, rootIdx, todo, runErr,
                    proc, ctxDone, signals, exif, newFilePath, tool, out, closing, tasks,
                    got, stdout, faults, fatal >>

\* io.WriteString(exifToolStdin, "-json\n"+filePath+"\n"+"-execute\n"): the
\* write fails when the tool is gone (the error is logged and the worker
\* goes back to its select), else the request is written and buf is reset.
WriteRequest(w) ==
    /\ proc = "running"
    /\ pc[w] = "write"
    /\ IF tool[w] = "dead"
       THEN /\ log' = [log EXCEPT ![task[w]] = Outcome("error", NoPath)]
            /\ task' = [task EXCEPT ![w] = 0]
            /\ pc' = [pc EXCEPT ![w] = "select"]
            /\ UNCHANGED << req, buf >>
       ELSE /\ req' = [req EXCEPT ![w] = Append(@, tasks[task[w]])]
            /\ buf' = [buf EXCEPT ![w] = << >>]
            /\ pc' = [pc EXCEPT ![w] = "read"]
            /\ UNCHANGED << log, task >>
    /\ UNCHANGED << cfg, exifOf, fs0, fs, mainPc, started, rootIdx, todo, runErr,
                    proc, ctxDone, signals, exif, newFilePath, tool, out, closing, tasks,
                    got, stdout, faults, fatal >>

\* A read loop that, on end of stream, gives up the task and goes back to
\* the select with the session still open.
ReadResponseRetrying(w) ==
    /\ proc = "running"
    /\ pc[w] = "read"
    /\ ReadyAt(out[w]) > 0 \/ tool[w] = "dead"
    /\ LET r == ReadyAt(out[w])
           payload == SubSeq(out[w], 1, r - 1)
           u == Unmarshal(payload)
       IN  IF r = 0
           THEN /\ buf' = [buf EXCEPT ![w] = @ \o out[w]]
                /\ out' = [out EXCEPT ![w] = << >>]
                /\ log' = [log EXCEPT ![task[w]] = Outcome("fatal", NoPath)]
                /\ fatal' = fatal \cup {w}
                /\ task' = [task EXCEPT ![w] = 0]
                /\ pc' = [pc EXCEPT ![w] = "select"]
                /\ UNCHANGED << exif, newFilePath, proc, tool, closing >>
           ELSE /\ buf' = [buf EXCEPT ![w] = @ \o payload]
                /\ out' = [out EXCEPT ![w] = SubSeq(@, r + 1, Len(@))]
                /\ IF u.err
                   THEN /\ log' = [log EXCEPT ![task[w]] = Outcome("error", NoPath)]
                        /\ task' = [task EXCEPT ![w] = 0]
                        /\ pc' = [pc EXCEPT ![w] = "select"]
                        /\ UNCHANGED << exif, newFilePath, proc, fatal, tool, closing >>
                   ELSE IF u.exifs = << >>
                        THEN /\ log' = [log EXCEPT ![task[w]] = Outcome("panic", NoPath)]
                             /\ proc' = "panic"
                             /\ closing' = [closing EXCEPT ![w] = @ \o CloseSequence(tool[w])]
                             /\ tool' = [tool EXCEPT ![w] = "dead"]
                             /\ pc' = [pc EXCEPT ![w] = "closed"]
                             /\ UNCHANGED << exif, newFilePath, task, fatal >>
                        ELSE \E j \in (IF DrawsJitter(u.exifs[1]) THEN Jitters ELSE {0}) :
                               LET t == CreationTime(u.exifs[1], j) IN
                               IF t.ok
                               THEN /\ exif' = [exif EXCEPT ![w] = u.exifs[1]]
                                    /\ newFilePath' = [newFilePath EXCEPT ![w] =
                                                         NewFilePath(tasks[task[w]], t)]
                                    /\ pc' = [pc EXCEPT ![w] = "exec"]
                                    /\ UNCHANGED << log, task, proc, fatal, tool, closing >>
                               ELSE /\ log' = [log EXCEPT ![task[w]] = Outcome("error", NoPath)]
                                    /\ task' = [task EXCEPT ![w] = 0]
                                    /\ pc' = [pc EXCEPT ![w] = "select"]
                                    /\ UNCHANGED << exif, newFilePath, proc, fatal, tool, closing >>
    /\ UNCHANGED << cfg, exifOf, fs0, fs, mainPc, started, rootIdx, todo, runErr,
                    ctxDone, signals, req, tasks, got, stdout, faults >>

\* The read loop, the decoding and the timestamp resolution.  The loop
\* returns from the goroutine on end of stream; it ends at the first
\* "{ready}\n" with the lines before it in buf.  Then: a payload that does
\* not parse and a record without a usable timestamp are logged; exifs[0]
\* of an empty array is an index out of range: the panic runs the deferred
\* close of this goroutine and then ends the process; else newFilePath is
\* computed, with a jitter drawn on the create-date branch.
ReadResponse(w) ==
    /\ proc = "running"
    /\ pc[w] = "read"
    /\ ReadyAt(out[w]) > 0 \/ tool[w] = "dead"
    /\ LET r == ReadyAt(out[w])
           payload == SubSeq(out[w], 1, r - 1)
           u == Unmarshal(payload)
       IN  IF r = 0
           THEN /\ buf' = [buf EXCEPT ![w] = @ \o out[w]]
                /\ out' = [out EXCEPT ![w] = << >>]
                /\ log' = [log EXCEPT ![task[w]] = Outcome("fatal", NoPath)]
                /\ fatal' = fatal \cup {w}
                /\ task' = [task EXCEPT ![w] = 0]
                /\ pc' = [pc EXCEPT ![w] = "closing"]
                /\ UNCHANGED << exif, newFilePath, proc, tool, closing >>
           ELSE /\ buf' = [buf EXCEPT ![w] = @ \o payload]
                /\ out' = [out EXCEPT ![w] = SubSeq(@, r + 1, Len(@))]
                /\ IF u.err
                   THEN /\ log' = [log EXCEPT ![task[w]] = Outcome("error", NoPath)]
                        /\ task' = [task EXCEPT ![w] = 0]
                        /\ pc' = [pc EXCEPT ![w] = "select"]
                        /\ UNCHANGED << exif, newFilePath, proc, fatal, tool, closing >>
                   ELSE IF u.exifs = << >>
                        THEN /\ log' = [log EXCEPT ![task[w]] = Outcome("panic", NoPath)]
                             /\ proc' = "panic"
                             /\ closing' = [closing EXCEPT ![w] = @ \o CloseSequence(tool[w])]
                             /\ tool' = [tool EXCEPT ![w] = "dead"]
                             /\ pc' = [pc EXCEPT ![w] = "closed"]
                             /\ UNCHANGED << exif, newFilePath, task, fatal >>
                        ELSE \E j \in (IF DrawsJitter(u.exifs[1]) THEN Jitters ELSE {0}) :
                               LET t == CreationTime(u.exifs[1], j) IN
                               IF t.ok
                               THEN /\ exif' = [exif EXCEPT ![w] = u.exifs[1]]
                                    /\ newFilePath' = [newFilePath EXCEPT ![w] =
                                                         NewFilePath(tasks[task[w]], t)]
                                    /\ pc' = [pc EXCEPT ![w] = "exec"]
                                    /\ UNCHANGED << log, task, proc, fatal, tool, closing >>
                               ELSE /\ log' = [log EXCEPT ![task[w]] = Outcome("error", NoPath)]
                                    /\ task' = [task EXCEPT ![w] = 0]
                                    /\ pc' = [pc EXCEPT ![w] = "select"]
                                    /\ UNCHANGED << exif, newFilePath, proc, fatal, tool, closing >>
    /\ UNCHANGED << cfg, exifOf, fs0, fs, mainPc, started, rootIdx, todo, runErr,
                    ctxDone, signals, req, tasks, got, stdout, faults >>

\* The branches taken with replace-if-exists tested before the dry run.
DecisionReplaceFirst(c) ==
    IF c.ReplaceIfExists THEN "replace"
    ELSE IF c.DryRun THEN "report" ELSE "stat"

\* The branch the worker takes once newFilePath is known.
Decision(c) ==
    IF c.DryRun THEN "report"
    ELSE IF c.ReplaceIfExists THEN "replace" ELSE "stat"

\* The line the dry run prints: "%s => %s %s\n" of filePath, newFilePath
\* and json.Marshal(exif).
ReportLine(src, dst, e) == [src |-> src, dst |-> dst, exif |-> e]

\* A worker that leaves its loop when the task ended in an error.
DoneClosingOnError(w, outcome) ==
    /\ log' = [log EXCEPT ![task[w]] = outcome]
    /\ task' = [task EXCEPT ![w] = 0]
    /\ exif' = [exif EXCEPT ![w] = ZeroExif]
    /\ newFilePath' = [newFilePath EXCEPT ![w] = NoPath]
    /\ pc' = [pc EXCEPT ![w] = IF outcome.kind = "error" THEN "closing" ELSE "select"]

\* The worker is done with its task: the outcome is recorded and the locals
\* of the iteration go out of scope.
Done(w, outcome) ==
    /\ log' = [log EXCEPT ![task[w]] = outcome]
    /\ task' = [task EXCEPT ![w] = 0]
    /\ exif' = [exif EXCEPT ![w] = ZeroExif]
    /\ newFilePath' = [newFilePath EXCEPT ![w] = NoPath]
    /\ pc' = [pc EXCEPT ![w] = "select"]

\* os.Rename(filePath, newFilePath) by worker w: it succeeds when the source
\* exists; it fails when the source is gone or the file system refuses.
OsRename(w, kind) ==
    \/ /\ Exists(fs, tasks[task[w]])
       /\ fs' = RenameResult(fs, tasks[task[w]], newFilePath[w])
       /\ Done(w, Outcome(kind, newFilePath[w]))
       /\ UNCHANGED faults
    \/ /\ ~Exists(fs, tasks[task[w]])
       /\ Done(w, Outcome("error", newFilePath[w]))
       /\ UNCHANGED << fs, faults >>
    \/ /\ faults < MaxFaults
       /\ faults' = faults + 1
       /\ Done(w, Outcome("error", newFilePath[w]))
       /\ UNCHANGED fs

\* With newFilePath known: the dry run prints its line; replace-if-exists
\* renames at once; otherwise os.Stat(newFilePath) decides between skipping
\* (the target exists), logging (another error) and going on to the rename.
Execute(w) ==
    /\ proc = "running"
    /\ pc[w] = "exec"
    /\ CASE Decision(cfg) = "report" ->
              /\ stdout' = stdout (+) SetToBag({ReportLine(tasks[task[w]], newFilePath[w], exif[w])})
              /\ Done(w, Outcome("report", newFilePath[w]))
              /\ UNCHANGED << fs, faults >>
         [] Decision(cfg) = "replace" ->
              /\ OsRename(w, "replace")
              /\ UNCHANGED stdout
         [] OTHER ->
              /\ \/ /\ Exists(fs, newFilePath[w])
                    /\ Done(w, Outcome("skip", newFilePath[w]))
                    /\ UNCHANGED faults
                 \/ /\ ~Exists(fs, newFilePath[w])
                    /\ pc' = [pc EXCEPT ![w] = "rename"]
                    /\ UNCHANGED << log, task, exif, newFilePath, faults >>
                 \/ /\ faults < MaxFaults
                    /\ faults' = faults + 1
                    /\ Done(w, Outcome("error", newFilePath[w]))
              /\ UNCHANGED << fs, stdout >>
    /\ UNCHANGED << cfg, exifOf, fs0, mainPc, started, rootIdx, todo, runErr, proc,
                    ctxDone, signals, buf, tool, req, out, closing, tasks, got, fatal >>

\* The rename that follows an os.Stat answering "does not exist".
Rename(w) ==
    /\ proc = "running"
    /\ pc[w] = "rename"
    /\ OsRename(w, "rename")
    /\ UNCHANGED << cfg, exifOf, fs0, mainPc, started, rootIdx, todo, runErr, proc,
                    ctxDone, signals, buf, tool, req, out, closing, tasks, got, stdout,
                    fatal >>

\* A close that gives up when the graceful command cannot be written.
CloseGivingUp(w) ==
    /\ proc = "running"
    /\ pc[w] = "closing"
    /\ closing' = [closing EXCEPT ![w] =
                     @ \o (IF tool[w] = "dead" THEN << "stay_open False failed" >>
                           ELSE CloseSequence(tool[w]))]
    /\ tool' = [tool EXCEPT ![w] = "dead"]
    /\ pc' = [pc EXCEPT ![w] = "closed"]
    /\ UNCHANGED << cfg, exifOf, fs0, fs, mainPc, started, rootIdx, todo, runErr,
                    proc, ctxDone, signals, task, buf, exif, newFilePath, req, out, tasks,
                    got, log, stdout, faults, fatal >>

\* The deferred close of the worker: io.WriteString(exifToolStdin,
\* "-stay_open\nFalse\n"), whose error is only logged, then
\* stop(exifToolCmd), which sends SIGTERM to the tool's process group, then
\* waitGroup.Done().
Close(w) ==
    /\ proc = "running"
    /\ pc[w] = "closing"
    /\ closing' = [closing EXCEPT ![w] = @ \o CloseSequence(tool[w])]
    /\ tool' = [tool EXCEPT ![w] = "dead"]
    /\ pc' = [pc EXCEPT ![w] = "closed"]
    /\ UNCHANGED << cfg, exifOf, fs0, fs, mainPc, started, rootIdx, todo, runErr,
                    proc, ctxDone, signals, task, buf, exif, newFilePath, req, out, tasks,
                    got, log, stdout, faults, fatal >>

(***************************************************************************)
(* The exiftool processes (the environment).                               *)
(***************************************************************************)
\* What exiftool prints for the file at path p: its record, or nothing on
\* stdout when there is no such file.
ToolPayload(p) ==
    IF Exists(fs, p) THEN RecordLines(exifOf[FileAt(fs, p)]) ELSE << >>

\* The tool answers its oldest request: the payload and the "{ready}" line.
\* A tool that misbehaves prints an empty array or something that is no JSON.
ToolAnswer(w) ==
    /\ tool[w] = "up"
    /\ req[w] # << >>
    /\ \/ /\ out' = [out EXCEPT ![w] = @ \o ToolPayload(Head(req[w])) \o << ReadyLine >>]
          /\ UNCHANGED faults
       \/ /\ faults < MaxFaults
          /\ faults' = faults + 1
          /\ \E lines \in {EmptyArrayLines, GarbageLines} :
                out' = [out EXCEPT ![w] = @ \o lines \o << ReadyLine >>]
    /\ req' = [req EXCEPT ![w] = Tail(@)]
    /\ UNCHANGED << cfg, exifOf, fs0, fs, mainPc, started, rootIdx, todo, runErr,
                    proc, ctxDone, signals, pc, task, buf, exif, newFilePath, tool,
                    closing, tasks, got, log, stdout, fatal >>

\* The tool exits or closes its pipes: the next write to it fails and its
\* reader sees end of stream.  (The worker notices only at its next write or
\* read, so the tool is let die only while the worker is about to do one.)
ToolDies(w) ==
    /\ tool[w] = "up"
    /\ pc[w] \in {"write", "read"}
    /\ faults < MaxFaults
    /\ faults' = faults + 1
    /\ tool' = [tool EXCEPT ![w] = "dead"]
    /\ UNCHANGED << cfg, exifOf, fs0, fs, mainPc, started, rootIdx, todo, runErr,
                    proc, ctxDone, signals, pc, task, buf, exif, newFilePath, req, out,
                    closing, tasks, got, log, stdout, fatal >>

\* The tool hangs on a request: it never answers it.
ToolHangs(w) ==
    /\ tool[w] = "up"
    /\ req[w] # << >>
    /\ faults < MaxFaults
    /\ faults' = faults + 1
    /\ tool' = [tool EXCEPT ![w] = "hung"]
    /\ UNCHANGED << cfg, exifOf, fs0, fs, mainPc, started, rootIdx, todo, runErr,
                    proc, ctxDone, signals, pc, task, buf, exif, newFilePath, req, out,
                    closing, tasks, got, log, stdout, fatal >>

(***************************************************************************)
(* The specifications.                                                     *)
(***************************************************************************)
Next ==
    \/ StartWorker
    \/ Walk
    \/ ProducerCancelled
    \/ DeferredCancel
    \/ DeferredWait
    \/ MainExit
    \/ SoftInterrupt
    \/ HardInterrupt
    \/ \E w \in Workers :
          \/ Receive(w)
          \/ WorkerCancelled(w)
          \/ WriteRequest(w)
          \/ ReadResponse(w)
          \/ Execute(w)
          \/ Rename(w)
          \/ Close(w)
          \/ ToolAnswer(w)
          \/ ToolDies(w)
          \/ ToolHangs(w)

Spec == Init /\ [][Next]_vars

(***************************************************************************)
(* The scheduler runs every goroutine that can take a step, and a tool     *)
(* that is up answers the request it has read.  Nothing obliges the user   *)
(* to send an interrupt, nor a tool to die or hang.  The runs considered   *)
(* have one worker, no dry run and no replacing, and the flat walk.        *)
(***************************************************************************)
InitFair ==
    /\ Init
    /\ cfg.NumWorkers = 1
    /\ ~cfg.DryRun
    /\ ~cfg.ReplaceIfExists
    /\ ~cfg.Recursive

Fairness ==
    /\ WF_vars(StartWorker)
    /\ WF_vars(Walk)
    /\ WF_vars(ProducerCancelled)
    /\ WF_vars(DeferredCancel)
    /\ WF_vars(DeferredWait)
    /\ WF_vars(MainExit)
    /\ \A w \in Workers :
          /\ WF_vars(Receive(w))
          /\ WF_vars(WorkerCancelled(w))
          /\ WF_vars(WriteRequest(w))
          /\ WF_vars(ReadResponse(w))
          /\ WF_vars(Execute(w))
          /\ WF_vars(Rename(w))
          /\ WF_vars(Close(w))
          /\ WF_vars(ToolAnswer(w))

FairSpec == InitFair /\ [][Next]_vars /\ Fairness

(***************************************************************************)
(* Notions the properties use.                                             *)
(***************************************************************************)
TaskIds == 1 .. Len(tasks)

\* The workers that received task t.
Receivers(t) == {w \in Workers : t \in got[w]}

\* Task t was handed to a worker (it is no longer just on offer).
Handed(t) == log[t].kind # "offered"

\* The producer gave up the task it was sending.
OfferAbandoned ==
    /\ Len(tasks) > 0
    /\ ~Handed(Len(tasks))
    /\ mainPc \in {"return", "wait", "returned"}

\* The worker holds a task it has not finished.
Processing == {"write", "read", "exec", "rename"}

\* Every file the run started with is still somewhere on disk.
AllFilesPresent == \A f \in Files : \E e \in fs : e.id = f

\* The path carries, when the run starts, the timestamp name of the file's
\* own metadata: an earlier run renamed the file.
AlreadyRenamed(p) ==
    /\ Exists(fs0, p)
    /\ Len(p.base) = 3
    /\ \E j \in Jitters :
          LET t == CreationTime(exifOf[FileAt(fs0, p)], j)
          IN  t.ok /\ FormatTime(t) = SubSeq(p.base, 1, 2)

PlainMode == ~cfg.DryRun /\ ~cfg.ReplaceIfExists

(***************************************************************************)
(* C1.  Every task the producer handed to the channel was received by      *)
(* exactly one worker, a task still on offer by none; a worker processes   *)
(* only a task it received, and the producer offers its next task only     *)
(* after the previous one was handed over.                                 *)
(***************************************************************************)
C1_ExactlyOneReceiver ==
    /\ \A t \in TaskIds :
          Cardinality(Receivers(t)) = (IF Handed(t) THEN 1 ELSE 0)
    /\ \A w \in Workers :
          /\ got[w] \subseteq TaskIds
          /\ task[w] # 0 => task[w] \in got[w]
    /\ \A w1, w2 \in Workers :
          w1 # w2 /\ task[w1] # 0 => task[w1] # task[w2]
    /\ \A t \in TaskIds : t < Len(tasks) => Handed(t)

\* Two workers have each received a task.
C1_Witness ==
    \E w1, w2 \in Workers : w1 # w2 /\ got[w1] # {} /\ got[w2] # {}

(***************************************************************************)
(* C2.  Without dry run and without replace-if-exists no file is ever      *)
(* overwritten: every file the run started with is still on disk, and a    *)
(* task that was skipped left its source where it was.                     *)
(***************************************************************************)
C2_NoOverwrite ==
    PlainMode =>
        /\ AllFilesPresent
        /\ Cardinality(fs) = Cardinality(fs0)
        /\ \A t \in TaskIds : log[t].kind = "skip" => Exists(fs, tasks[t])

(***************************************************************************)
(* C3.  In a dry run the file system stays as it was, no task ends in a    *)
(* rename, a replacement or a skip, and the output holds exactly one line  *)
(* per reported task: its source, its target and the file's metadata,      *)
(* the target being the timestamp name of that metadata.                   *)
(***************************************************************************)
C3_DryRunOnlyReports ==
    cfg.DryRun =>
        /\ fs = fs0
        /\ \A t \in TaskIds : log[t].kind \notin {"rename", "replace", "skip"}
        /\ BagCardinality(stdout) = Cardinality({t \in TaskIds : log[t].kind = "report"})
        /\ \A t \in TaskIds :
              log[t].kind = "report" =>
                 /\ BagIn(ReportLine(tasks[t], log[t].dst, exifOf[FileAt(fs0, tasks[t])]),
                          stdout)
                 /\ \E j \in Jitters :
                       log[t].dst = NewFilePath(tasks[t],
                                       CreationTime(exifOf[FileAt(fs0, tasks[t])], j))
        /\ \A w \in Workers : pc[w] # "rename"

\* A dry run, replace-if-exists set as well, has reported two tasks.
C3_Witness ==
    /\ cfg.DryRun
    /\ cfg.ReplaceIfExists
    /\ BagCardinality(stdout) = 2

(***************************************************************************)
(* C4.  No rename is executed whose target path equals its source path.    *)
(***************************************************************************)
C4_NoSelfRename ==
    ~cfg.DryRun =>
        \A t \in TaskIds :
            log[t].kind \in {"rename", "replace"} => log[t].dst # tasks[t]

(***************************************************************************)
(* C5.  Without replace-if-exists, a file that an earlier run renamed to   *)
(* the timestamp name of its metadata is not renamed again.                *)
(***************************************************************************)
C5_Idempotent ==
    PlainMode =>
        \A t \in TaskIds :
            AlreadyRenamed(tasks[t]) => log[t].kind # "rename"

(***************************************************************************)
(* C6.  Once the first interrupt has cancelled the run: no worker receives *)
(* a task; a worker that holds a task keeps it until the task has its      *)
(* outcome (it leaves its loop over a task only on a read error); and a    *)
(* worker waiting in its select leaves it only to close its session.       *)
(***************************************************************************)
C6_SoftCancelStopsNewWork ==
    [][ signals >= 1 =>
          \A w \in Workers :
             /\ got'[w] = got[w]
             /\ pc[w] = "select" /\ pc'[w] # "select" => pc'[w] \in {"closing", "killed"}
             /\ pc[w] \in Processing /\ pc'[w] \notin Processing \cup {"killed"} =>
                   /\ log'[task[w]].kind \notin {"offered", "pending"}
                   /\ pc'[w] = "closing" => w \in fatal'
      ]_vars

\* The run is cancelled by an interrupt while the producer is blocked
\* sending, one worker is about to execute its decision and another waits
\* in its select.
C6_Witness ==
    /\ signals = 1
    /\ proc = "running"
    /\ mainPc = "emit"
    /\ \E w1, w2 \in Workers : pc[w1] = "exec" /\ pc[w2] = "select"

(***************************************************************************)
(* C7.  A worker that is awaiting its tool's response when the run is      *)
(* cancelled eventually sends SIGTERM to the tool and is closed (unless    *)
(* the process ends first).                                                *)
(***************************************************************************)
C7_CancelReachesMidRequest ==
    \A w \in Workers :
        (signals >= 1 /\ pc[w] = "read")
           ~> (proc # "running" \/ (pc[w] = "closed" /\ tool[w] = "dead"))

(***************************************************************************)
(* C8.  If no interrupt arrives and no tool hangs (each answers with a     *)
(* sentinel-terminated response or closes its stream), Run eventually      *)
(* returns with every started worker closed.                               *)
(***************************************************************************)
C8_RunTerminates ==
    <>( \/ signals >= 1
        \/ \E w \in Workers : tool[w] = "hung"
        \/ proc = "panic"
        \/ /\ mainPc = "returned"
           /\ \A w \in 1 .. started : pc[w] = "closed" )

(***************************************************************************)
(* C9.  When a worker left its loop on a fatal session error (and no        *)
(* interrupt arrived), Run returns an error that is not a cancellation,    *)
(* and the process ends with a non-zero status.                            *)
(***************************************************************************)
C9_WorkerFatalErrorSurfaces ==
    mainPc = "returned" /\ fatal # {} /\ signals = 0 =>
        /\ runErr \notin {"nil", "canceled"}
        /\ proc \in {"running", "exit1"}

(***************************************************************************)
(* C10.  When the producer gives up the task it was sending because the    *)
(* run is cancelled, it offers no further task, Run returns the            *)
(* cancellation error, and main ends with exit status 0 (unless a second   *)
(* interrupt or a crash ends the process first) - in the flat and in the   *)
(* recursive walk alike.                                                   *)
(***************************************************************************)
C10_CancelledProducer ==
    /\ \A t \in TaskIds : ~Handed(t) => t = Len(tasks)
    /\ OfferAbandoned =>
          /\ runErr = "canceled"
          /\ mainPc = "returned" /\ proc # "running" => proc \in {"exit0", "panic"}

\* An interrupt made the producer give up a file of the subdirectory in a
\* recursive walk, and main has ended.
C10_Witness ==
    /\ OfferAbandoned
    /\ signals = 1
    /\ cfg.Recursive
    /\ tasks[Len(tasks)].dir = DirAs
    /\ proc = "exit0"

(***************************************************************************)
(* C11.  A session that fails to open, and a directory walk that reports   *)
(* an error, end the run with that error: Run goes to its return with the  *)
(* error and keeps it; after the failure the producer offers no task (it   *)
(* has offered none at all when a session failed to open, and none of a    *)
(* later root when the walk failed); and when Run has returned, every      *)
(* worker that was started is closed.                                      *)
(***************************************************************************)
C11_FatalErrorsAbort ==
    /\ [][ /\ mainPc = "start" /\ faults' = faults + 1 =>
                runErr' = "start" /\ mainPc' = "return"
           /\ mainPc = "walk" /\ todo # << >> /\ mainPc' \notin {"walk", "emit", "killed"} =>
                runErr' = "walk" /\ mainPc' = "return"
           /\ runErr \in {"start", "walk"} => runErr' = runErr /\ tasks' = tasks
         ]_vars
    /\ []( /\ runErr = "start" => tasks = << >> /\ started < cfg.NumWorkers
           /\ runErr \in {"start", "walk"} =>
                /\ mainPc \in {"return", "wait", "returned", "killed"}
                /\ \A t \in TaskIds :
                      \E k \in 1 .. rootIdx :
                         SubSeq(tasks[t].dir, 1, Len(cfg.Roots[k])) = cfg.Roots[k]
                /\ mainPc = "returned" =>
                      \A w \in 1 .. started : pc[w] = "closed" )

\* The walk failed after it had offered a task, two workers were running,
\* and Run has returned.
C11_Witness ==
    /\ runErr = "walk"
    /\ mainPc = "returned"
    /\ started = 2
    /\ Len(tasks) >= 1
    /\ \E w \in Workers : got[w] # {}

(***************************************************************************)
(* C12.  The producer offers only regular files that lie under a root      *)
(* (directly in it in the flat walk, at any depth in the recursive walk)   *)
(* and whose base name some pattern matches, each of them at most once;    *)
(* and when the walk ends without an error and without being cancelled it  *)
(* has offered every one of them.                                          *)
(***************************************************************************)
UnderRoot(dir) ==
    \E k \in 1 .. Len(cfg.Roots) :
       IF cfg.Recursive
       THEN Len(dir) >= Len(cfg.Roots[k]) /\ SubSeq(dir, 1, Len(cfg.Roots[k])) = cfg.Roots[k]
       ELSE dir = cfg.Roots[k]

Discoverable ==
    {e.path : e \in {x \in fs0 : /\ UnderRoot(x.path.dir)
                                  /\ \E k \in 1 .. Len(cfg.FileRegexps) :
                                        MatchString(cfg.FileRegexps[k], x.path.base)}}

C12_DiscoveryCoverage ==
    /\ \A t \in TaskIds : tasks[t] \in Discoverable
    /\ \A t1, t2 \in TaskIds : t1 # t2 => tasks[t1] # tasks[t2]
    /\ mainPc \in {"return", "wait", "returned"} /\ runErr = "nil" =>
          {tasks[t] : t \in TaskIds} = Discoverable

\* A flat walk with a file in the subdirectory has ended: it offered, once,
\* a file that both patterns match.
C12_Witness ==
    /\ mainPc = "returned"
    /\ runErr = "nil"
    /\ ~cfg.Recursive
    /\ \E e \in fs0 : e.path.dir = DirAs
    /\ Len(cfg.FileRegexps) = 2
    /\ \E t \in TaskIds : MatchesEvery(cfg.FileRegexps, tasks[t].base)

\* The response the worker is about to decode: the lines before the first
\* "{ready}" line of its tool's output.
Payload(w) == SubSeq(out[w], 1, ReadyAt(out[w]) - 1)

\* Worker w awaits a response, and the complete response in its pipe does
\* not parse or parses to an empty array.
MalformedResponse(w) ==
    /\ pc[w] = "read"
    /\ ReadyAt(out[w]) > 0
    /\ Unmarshal(Payload(w)).err \/ Unmarshal(Payload(w)).exifs = << >>

\* Worker w awaits a response, its tool's output has ended, and what is
\* left in the pipe holds no "{ready}" line.
EndOfStream(w) ==
    /\ pc[w] = "read"
    /\ tool[w] = "dead"
    /\ ReadyAt(out[w]) = 0

\* Worker w awaits a response, and the record in its pipe has no usable
\* timestamp (none of the two fields, or one that does not parse).
TimestampError(w) ==
    /\ pc[w] = "read"
    /\ ReadyAt(out[w]) > 0
    /\ ~Unmarshal(Payload(w)).err
    /\ Unmarshal(Payload(w)).exifs # << >>
    /\ ~CreationTime(Unmarshal(Payload(w)).exifs[1], 0).ok

(***************************************************************************)
(* C13.  When a worker reads a response that does not parse, or that       *)
(* parses to an empty array, it logs the error and leaves its loop to      *)
(* close its session; the process keeps running, the run is not cancelled  *)
(* and the other workers are where they were.                              *)
(***************************************************************************)
C13_MalformedPayloadConfined ==
    [][ \A w \in Workers :
          MalformedResponse(w) /\ pc'[w] \notin {"read", "killed"} =>
             /\ log'[task[w]].kind \in {"error", "fatal"}
             /\ pc'[w] = "closing"
             /\ proc' = "running"
             /\ ctxDone' = ctxDone
             /\ runErr' = runErr
             /\ \A v \in Workers \ {w} : pc'[v] = pc[v]
      ]_vars

(***************************************************************************)
(* C14.  When a worker's read ends before the "{ready}" line, the worker   *)
(* leaves its loop at once to close its session; from then on it receives  *)
(* no task and writes no request; the run is not cancelled by it, and the  *)
(* other workers and their tools are where they were.                      *)
(***************************************************************************)
C14_PrematureEndOfStream ==
    /\ [][ \A w \in Workers :
             /\ EndOfStream(w) /\ pc'[w] \notin {"read", "killed"} =>
                   /\ pc'[w] = "closing"
                   /\ w \in fatal'
                   /\ log'[task[w]].kind = "fatal"
                   /\ ctxDone' = ctxDone
                   /\ \A v \in Workers \ {w} : pc'[v] = pc[v] /\ tool'[v] = tool[v]
             /\ w \in fatal =>
                   /\ w \in fatal'
                   /\ got'[w] = got[w]
                   /\ Len(req'[w]) <= Len(req[w])
                   /\ pc'[w] \in {"closing", "closed", "killed"}
         ]_vars
    /\ [](\A w \in fatal : pc[w] \in {"closing", "closed", "killed"} /\ task[w] = 0)

\* A worker whose tool's output ended is closed, and the other worker has
\* received a task after that and is about to execute its decision.
C14_Witness ==
    \E w, v \in Workers :
       /\ w \in fatal
       /\ pc[w] = "closed"
       /\ pc[v] = "exec"
       /\ \E t \in got[w] : t < task[v]

(***************************************************************************)
(* C15.  When a task ends in a per-file error (no usable timestamp, a      *)
(* failed os.Stat, a failed os.Rename) the file system is as it was, the   *)
(* worker is back in its select with its session open, and neither the     *)
(* context nor the error Run returns has changed; a run with no interrupt  *)
(* and no misbehaving environment returns nil whatever its per-file errors.*)
(***************************************************************************)
C15_PerFileErrorsRecoverable ==
    /\ [][ \A w \in Workers :
             /\ TimestampError(w) \/ pc[w] \in {"exec", "rename"}
             /\ log'[task[w]].kind = "error"
             => /\ pc'[w] = "select"
                /\ fs' = fs
                /\ tool'[w] = tool[w]
                /\ closing'[w] = closing[w]
                /\ w \notin fatal'
                /\ runErr' = runErr
                /\ ctxDone' = ctxDone
                /\ proc' = proc
         ]_vars
    /\ [](mainPc = "returned" /\ signals = 0 /\ faults = 0 => runErr = "nil")

\* A worker logged a per-file error for one task and then renamed the file
\* of a later task, and Run has returned nil; the environment did nothing
\* wrong.
C15_Witness ==
    /\ mainPc = "returned"
    /\ runErr = "nil"
    /\ faults = 0
    /\ signals = 0
    /\ \E w \in Workers : \E t1, t2 \in got[w] :
          /\ t1 < t2
          /\ log[t1].kind = "error"
          /\ log[t2].kind = "rename"

(***************************************************************************)
(* C16.  The producer creates a task only when all NumWorkers workers have *)
(* been started, and while it offers a task (the run not being cancelled)  *)
(* some started worker has not left its loop.                              *)
(***************************************************************************)
C16_NoTaskWithoutConsumer ==
    /\ tasks # << >> => started = cfg.NumWorkers
    /\ proc = "running" /\ mainPc = "emit" /\ ~ctxDone =>
          \E w \in 1 .. started : pc[w] \notin {"closing", "closed"}

(***************************************************************************)
(* C17.  A worker is closed exactly when it has performed the close        *)
(* sequence, once: the graceful command was attempted first, then SIGTERM  *)
(* was sent to the tool's process group, also when writing the graceful    *)
(* command failed; a worker still in its loop has performed none of it.    *)
(***************************************************************************)
C17_SessionReleased ==
    \A w \in Workers :
       /\ closing[w] \in { << >>,
                           << "stay_open False", "SIGTERM" >>,
                           << "stay_open False failed", "SIGTERM" >> }
       /\ pc[w] = "closed" <=> closing[w] # << >>
       /\ pc[w] = "closed" => tool[w] = "dead"

\* One worker left its loop on a read error and closed a session whose
\* graceful command could not be written; the other left its select on
\* cancellation and closed its session gracefully.
C17_Witness ==
    \E w, v \in Workers :
       /\ w \in fatal
       /\ closing[w] = << "stay_open False failed", "SIGTERM" >>
       /\ closing[v] = << "stay_open False", "SIGTERM" >>

(***************************************************************************)
(* C18.  Run waits only after it has cancelled the context, and when Run   *)
(* has returned every worker that was started is closed, its tool          *)
(* signalled; workers that were never started have done nothing.           *)
(***************************************************************************)
C18_RunWaitsForWorkers ==
    /\ mainPc \in {"wait", "returned"} => ctxDone
    /\ mainPc = "returned" =>
          \A w \in 1 .. started :
             pc[w] = "closed" /\ tool[w] = "dead" /\ closing[w] # << >>
    /\ \A w \in Workers : w > started => pc[w] = "none" /\ tool[w] = "none"

\* Run has returned the cancellation error with two workers started, one
\* of which had received a task.
C18_Witness ==
    /\ mainPc = "returned"
    /\ runErr = "canceled"
    /\ started = 2
    /\ \E w \in Workers : got[w] # {}

(***************************************************************************)
(* C19.  A session has at most one request written and not answered.  A    *)
(* worker about to receive or to write has nothing pending on its session: *)
(* no request, no unread line.  A worker awaiting a response has an empty  *)
(* buf and either its one request unanswered or exactly one response in    *)
(* the pipe, ending with the "{ready}" line.  The record a worker acts on  *)
(* is the one decoded from buf, it is the metadata of a file, and the      *)
(* target path was computed from it and from the task's own path.          *)
(***************************************************************************)
C19_StrictRequestResponse ==
    \A w \in Workers :
       /\ Len(req[w]) <= 1
       /\ pc[w] \in {"select", "write"} => req[w] = << >> /\ out[w] = << >>
       /\ pc[w] = "read" =>
             /\ buf[w] = << >>
             /\ \/ req[w] = << tasks[task[w]] >> /\ out[w] = << >>
                \/ req[w] = << >> /\ out[w] # << >> /\ ReadyAt(out[w]) = Len(out[w])
       /\ pc[w] \in {"exec", "rename"} =>
             /\ req[w] = << >>
             /\ out[w] = << >>
             /\ buf[w] = RecordLines(exif[w])
             /\ \E f \in Files : exif[w] = exifOf[f]
             /\ \E j \in Jitters :
                   newFilePath[w] = NewFilePath(tasks[task[w]], CreationTime(exif[w], j))

\* A worker has decoded the response for a task after an earlier task of
\* its own ended in an error.
C19_Witness ==
    \E w \in Workers :
       /\ pc[w] = "exec"
       /\ \E t \in got[w] : t # task[w] /\ log[t].kind = "error"

(***************************************************************************)
(* C20.  A worker that left its loop, other than on a read error, has      *)
(* brought every task it received to an outcome (renamed, replaced,        *)
(* skipped, reported or error logged); and when Run has returned nil, no   *)
(* worker having left on a read error, every task the producer created     *)
(* has its outcome.                                                        *)
(***************************************************************************)
FinalOutcomes == {"rename", "replace", "skip", "report", "error"}

C20_NoAcceptedWorkLost ==
    /\ \A w \in Workers :
          pc[w] \in {"closing", "closed"} /\ w \notin fatal /\ proc # "panic" =>
             \A t \in got[w] : log[t].kind \in FinalOutcomes
    /\ mainPc = "returned" /\ runErr = "nil" /\ fatal = {} =>
          \A t \in TaskIds : log[t].kind \in FinalOutcomes

\* With no interrupt and nothing misbehaving, Run has returned after two
\* workers each renamed the file they received.
C20_Witness ==
    /\ mainPc = "returned"
    /\ signals = 0
    /\ faults = 0
    /\ Len(tasks) = 2
    /\ \A w \in Workers : Cardinality(got[w]) = 1
    /\ \A t \in TaskIds : log[t].kind = "rename"

====
